---- MODULE Spec2Model ----
(***************************************************************************)
(* A model of pymonoprice: the serial control-protocol client of a         *)
(* multi-zone amplifier.  One session is modelled in one of its two modes: *)
(* the blocking Monoprice (threads, RLock, one byte per read) or the       *)
(* suspending MonopriceAsync / MonopriceProtocol (asyncio tasks, two       *)
(* asyncio.Lock gates, a queue of chunks fed by data_received).            *)
(*                                                                         *)
(* Bytes are one-character strings; a byte string is a sequence of them.   *)
(* A byte that has come in from the device is a record [b, e]: b is the    *)
(* byte and e a ghost tag the code never reads, "new" when the byte came   *)
(* in after the latest request was written and "old" otherwise.            *)
(***************************************************************************)
EXTENDS Integers, Sequences, FiniteSets, TLC

\* ------------------------------------------------------------ bounds
\* Threads (blocking mode) or tasks (suspending mode) calling the facade,
\* each one call after another.
NumCallers == 2
\* The longest buffer the frame accumulator is fed
MaxLen == 5
\* The longest noise before and after a status line
NoiseLen == 2
\* The most lines parsed in bulk
MaxLines == 3
\* How far beyond the limits of a set command the values tried go
Margin == 2

\* ------------------------------------------------------------ constants
\* TIMEOUT = 2: the serial read timeout / the wait_for timeout, in ticks.
TIMEOUT == 2
EOL == <<"\r", "\n", "#">>
LEN_EOL == Len(EOL)

Callers == 1..NumCallers
NoCaller == 0
\* Python's None where a tuple or a list is expected
None == <<>>

\* ------------------------------------------------------------ helpers
SetMin(S) == CHOOSE x \in S : \A y \in S : x <= y
Max2(a, b) == IF a >= b THEN a ELSE b
Min2(a, b) == IF a <= b THEN a ELSE b

DigitChars == <<"0", "1", "2", "3", "4", "5", "6", "7", "8", "9">>
DigitChar(d) == DigitChars[d + 1]
IsDigit(ch) == \E d \in 0..9 : DigitChars[d + 1] = ch
DigitVal(ch) == CHOOSE d \in 0..9 : DigitChars[d + 1] = ch

\* str(n) for an integer n, as "{}".format(n) writes it
RECURSIVE NatStr(_)
NatStr(n) == IF n < 10 THEN <<DigitChar(n)>> ELSE NatStr(n \div 10) \o <<DigitChar(n % 10)>>
IntStr(n) == IF n < 0 THEN <<"-">> \o NatStr(0 - n) ELSE NatStr(n)
\* "{:02}".format(n): zero-padded to width 2 (the sign counts in the width)
Pad02(n) == IF n >= 0 /\ n < 10 THEN <<"0">> \o NatStr(n) ELSE IntStr(n)

\* int(s) for a string of decimal digits
RECURSIVE DigitsInt(_)
DigitsInt(s) == IF s = <<>> THEN 0 ELSE 10 * DigitsInt(SubSeq(s, 1, Len(s) - 1)) + DigitVal(s[Len(s)])

\* The bytes of a sequence of tagged bytes
Bytes(s) == [i \in 1..Len(s) |-> s[i].b]
\* A byte string that comes in: tagged "new"
Tagged(s) == [i \in 1..Len(s) |-> [b |-> s[i], e |-> "new"]]
\* A request is written: what has come in before is "old" from now on
Aged(s) == [i \in 1..Len(s) |-> [b |-> s[i].b, e |-> "old"]]
AgedAll(chunks) == [i \in 1..Len(chunks) |-> Aged(chunks[i])]

\* bytes.decode("ascii") / str.encode(): byte for byte on ASCII, and every
\* byte of the model is ASCII
IsAscii(s) == \A i \in 1..Len(s) : s[i] # "\\x80"

\* sequence.find(sub, start): the lowest 0-based index >= start at which sub
\* occurs in sequence, -1 if none
find(sequence, sub, start) ==
    LET hits == {i \in start..(Len(sequence) - Len(sub)) :
                    \A j \in 1..Len(sub) : sequence[i + j] = sub[j]}
    IN  IF hits = {} THEN -1 ELSE SetMin(hits)

\* ------------------------------------------------------------ accumulator
\* A faulty variant: the scan resumes one byte after the start of the marker
\* found, so that overlapping occurrences are counted
RECURSIVE CountLoop_Overlapping(_, _, _, _)
CountLoop_Overlapping(sequence, sub, start, count) ==
    LET idx == find(sequence, sub, start)
    IN  IF idx < 0 THEN <<start, count>>
        ELSE CountLoop_Overlapping(sequence, sub, idx + 1, count + 1)
\* A faulty variant: when nothing more is found the scan offset returned is
\* the end of the buffer
RECURSIVE CountLoop_ToEnd(_, _, _, _)
CountLoop_ToEnd(sequence, sub, start, count) ==
    LET idx == find(sequence, sub, start)
    IN  IF idx < 0 THEN <<Len(sequence), count>>
        ELSE CountLoop_ToEnd(sequence, sub, idx + Len(sub), count + 1)
\* _subsequence_count's loop from (start, count)
RECURSIVE CountLoop(_, _, _, _)
CountLoop(sequence, sub, start, count) ==
    LET idx == find(sequence, sub, start)
    IN  IF idx < 0 THEN <<start, count>>
        ELSE CountLoop(sequence, sub, idx + Len(sub), count + 1)

\* A faulty variant: the scan starts over at offset 0 with the count so far
_subsequence_count_Rescan(sequence, sub, previous) ==
    CountLoop(sequence, sub, 0, IF previous = None THEN 0 ELSE previous[2])
_subsequence_count(sequence, sub, previous) ==
    LET prev == IF previous = None THEN <<0, 0>> ELSE previous
    IN  CountLoop(sequence, sub, prev[1], prev[2])

\* ------------------------------------------------------------ encoder
_format_zone_status_request(zone) == <<"?">> \o IntStr(zone) \o <<"\r">>
_format_all_zones_status_request(unit) == <<"?">> \o IntStr(unit * 10) \o <<"\r">>
\* A Python value passed where a bool is expected: its type, and its number
\* (bool, int) or its characters (str)
BoolInt(b) == IF b THEN 1 ELSE 0
PyBool(b) == [t |-> "bool", n |-> BoolInt(b), s |-> <<>>]
PyInt(n) == [t |-> "int", n |-> n, s |-> <<>>]
PyStr(s) == [t |-> "str", n |-> 0, s |-> s]
PyNone == [t |-> "NoneType", n |-> 0, s |-> <<>>]
\* A faulty variant: only the bool True counts
Truthy_OnlyTrue(x) == x.t = "bool" /\ x.n # 0
\* Python's truth test, as `"01" if power else "00"` applies it
Truthy(x) ==
    CASE x.t = "bool" -> x.n # 0
      [] x.t = "int" -> x.n # 0
      [] x.t = "str" -> Len(x.s) > 0
      [] x.t = "NoneType" -> FALSE
_format_set_power(zone, power) ==
    <<"<">> \o IntStr(zone) \o <<"P", "R">> \o (IF Truthy(power) THEN <<"0", "1">> ELSE <<"0", "0">>) \o <<"\r">>
_format_set_mute(zone, mute) ==
    <<"<">> \o IntStr(zone) \o <<"M", "U">> \o (IF Truthy(mute) THEN <<"0", "1">> ELSE <<"0", "0">>) \o <<"\r">>
_format_set_volume(zone, volume) ==
    <<"<">> \o IntStr(zone) \o <<"V", "O">> \o Pad02(Max2(0, Min2(volume, 38))) \o <<"\r">>
_format_set_treble(zone, treble) ==
    <<"<">> \o IntStr(zone) \o <<"T", "R">> \o Pad02(Max2(0, Min2(treble, 14))) \o <<"\r">>
_format_set_bass(zone, bass) ==
    <<"<">> \o IntStr(zone) \o <<"B", "S">> \o Pad02(Max2(0, Min2(bass, 14))) \o <<"\r">>
_format_set_balance(zone, balance) ==
    <<"<">> \o IntStr(zone) \o <<"B", "L">> \o Pad02(Max2(0, Min2(balance, 20))) \o <<"\r">>
\* A faulty variant: the source is clamped to 0..6
_format_set_source_Floor0(zone, source) ==
    <<"<">> \o IntStr(zone) \o <<"C", "H">> \o Pad02(Max2(0, Min2(source, 6))) \o <<"\r">>
_format_set_source(zone, source) ==
    <<"<">> \o IntStr(zone) \o <<"C", "H">> \o Pad02(Max2(1, Min2(source, 6))) \o <<"\r">>

\* ------------------------------------------------------------ decoder
\* ZONE_PATTERN matches at 0-based index i: ">" and 22 decimal digits
PatternAt(string, i) ==
    /\ i + 23 <= Len(string)
    /\ string[i + 1] = ">"
    /\ \A j \in 2..23 : IsDigit(string[i + j])

\* A faulty variant: only the second digit of a group is read
Group_LowDigit(string, i, k) == DigitsInt(SubSeq(string, i + 2 * k + 1, i + 2 * k + 1))
\* The k-th (1..11) two-digit group of the match at i, as int() reads it
Group(string, i, k) == DigitsInt(SubSeq(string, i + 2 * k, i + 2 * k + 1))

\* A faulty variant: the last match is taken
FirstMatch_Last(hits) == CHOOSE x \in hits : \A y \in hits : x >= y
\* re.search takes the leftmost match
FirstMatch(hits) == SetMin(hits)

\* A faulty variant: a status of zeros instead of None when nothing matches
from_string_Default(string) ==
    LET hits == {i \in 0..(Len(string) - 23) : PatternAt(string, i)}
        i == IF hits = {} THEN 0 ELSE SetMin(hits)
        g == [k \in 1..11 |-> IF hits = {} THEN 0 ELSE Group(string, i, k)]
    IN  <<[zone |-> g[1], pa |-> g[2] # 0, power |-> g[3] # 0, mute |-> g[4] # 0,
           do_not_disturb |-> g[5] # 0, volume |-> g[6], treble |-> g[7], bass |-> g[8],
           balance |-> g[9], source |-> g[10], keypad |-> g[11] # 0]>>
\* ZoneStatus.from_string: None (<<>>) or <<status>>; re.search takes the
\* leftmost match
from_string(string) ==
    LET hits == {i \in 0..(Len(string) - 23) : PatternAt(string, i)}
    IN  IF string = <<>> \/ hits = {} THEN None
        ELSE LET i == FirstMatch(hits)
             IN  <<[zone |-> Group(string, i, 1),
                    pa |-> Group(string, i, 2) # 0,
                    power |-> Group(string, i, 3) # 0,
                    mute |-> Group(string, i, 4) # 0,
                    do_not_disturb |-> Group(string, i, 5) # 0,
                    volume |-> Group(string, i, 6),
                    treble |-> Group(string, i, 7),
                    bass |-> Group(string, i, 8),
                    balance |-> Group(string, i, 9),
                    source |-> Group(string, i, 10),
                    keypad |-> Group(string, i, 11) # 0]>>

\* A faulty variant: the statuses come out in reverse order
RECURSIVE from_strings_Reversed(_)
from_strings_Reversed(strings) ==
    IF strings = <<>> THEN <<>>
    ELSE from_strings_Reversed(Tail(strings)) \o from_string(Head(strings))
\* ZoneStatus.from_strings: the statuses of the strings that parse, in order
RECURSIVE from_strings(_)
from_strings(strings) ==
    IF strings = <<>> THEN <<>>
    ELSE from_string(Head(strings)) \o from_strings(Tail(strings))

\* str.split(sep): the pieces between the non-overlapping occurrences of sep,
\* scanning from the left
RECURSIVE split(_, _)
split(string, sep) ==
    LET idx == find(string, sep, 0)
    IN  IF idx < 0 THEN <<string>>
        ELSE <<SubSeq(string, 1, idx)>> \o split(SubSeq(string, idx + Len(sep) + 1, Len(string)), sep)


\* ------------------------------------------------------------ the device
\* What the amplifier answers, as the fragments it sends in one piece.
\* The payload is that of the test's zone 11: ">1100010000131112100401".
Payload == <<">", "1", "1", "0", "0", "0", "1", "0", "0", "0", "0", "1", "3",
             "1", "1", "1", "2", "1", "0", "0", "4", "0", "1">>
\* the acknowledgement of a set command
Ack == EOL
\* the answer to a single-zone query
ZoneReply == EOL \o Payload \o EOL
\* the answer to a whole-unit query in which one zone's payload is well formed
UnitReply == EOL \o Payload \o EOL \o EOL \o EOL \o EOL \o EOL \o EOL
\* a reply cut short
Partial == <<"\r">>
Fragments == {Ack, ZoneReply, UnitReply, Partial}

\* ------------------------------------------------------------ facade calls
\* The snapshot restore_zone replays: the status the payload decodes to
Snapshot == from_string(ZoneReply)[1]

\* A facade call: its name, its zone or unit n and its value v (power and mute
\* take v by truthiness)
Call(name, n, v) == [name |-> name, n |-> n, v |-> v, status |-> Snapshot]
NoCall == Call("", 0, 0)
Setters == {"set_power", "set_mute", "set_volume", "set_treble", "set_bass",
            "set_balance", "set_source"}
Calls ==
    {Call("zone_status", 11, 0), Call("all_zone_status", 1, 0),
     Call("all_zone_status", 4, 0), Call("all_zone_status", 0, 0),
     Call("restore_zone", 11, 0),
     Call("set_power", 12, 1), Call("set_mute", 12, 0), Call("set_volume", 12, 100),
     Call("set_treble", 12, 7), Call("set_bass", 12, 0 - 1), Call("set_balance", 12, 21),
     Call("set_source", 12, 0)}

\* The request a setter writes for the Python value x it is given
SetRequest(name, zone, x) ==
    CASE name = "set_power" -> _format_set_power(zone, x)
      [] name = "set_mute" -> _format_set_mute(zone, x)
      [] name = "set_volume" -> _format_set_volume(zone, x.n)
      [] name = "set_treble" -> _format_set_treble(zone, x.n)
      [] name = "set_bass" -> _format_set_bass(zone, x.n)
      [] name = "set_balance" -> _format_set_balance(zone, x.n)
      [] name = "set_source" -> _format_set_source(zone, x.n)

\* A faulty variant: bass is restored before treble
RestoreSetter_Swapped(k) ==
    <<"set_power", "set_mute", "set_volume", "set_bass", "set_treble",
      "set_balance", "set_source">>[k]
\* restore_zone's k-th sub-step (1..7): the setter and the snapshot's field
RestoreSetter(k) ==
    <<"set_power", "set_mute", "set_volume", "set_treble", "set_bass",
      "set_balance", "set_source">>[k]
RestoreValue(k, status) ==
    <<PyBool(status.power), PyBool(status.mute), PyInt(status.volume), PyInt(status.treble),
      PyInt(status.bass), PyInt(status.balance), PyInt(status.source)>>[k]
RestoreRequest(k, status) == SetRequest(RestoreSetter(k), status.zone, RestoreValue(k, status))
RestoreSteps == 7

\* The request of call o at sub-step k (k = 0 outside restore_zone)
RequestOf(o, k) ==
    CASE o.name = "zone_status" -> _format_zone_status_request(o.n)
      [] o.name = "all_zone_status" -> _format_all_zones_status_request(o.n)
      [] o.name = "restore_zone" -> RestoreRequest(k, o.status)
      [] OTHER -> SetRequest(o.name, o.n, PyInt(o.v))

\* A faulty variant: every call site leaves num_eols_to_read at its default
NumEols_Default(o) == 1
\* num_eols_to_read as each call site passes it (the default is 1)
NumEols(o) ==
    CASE o.name = "zone_status" -> 2
      [] o.name = "all_zone_status" -> 7
      [] OTHER -> 1

\* A faulty variant: all_zone_status has no guard
BadUnit_Never(o) == FALSE
\* all_zone_status's guard: unit < 1 or unit > 3
BadUnit(o) == o.name = "all_zone_status" /\ (o.n < 1 \/ o.n > 3)

\* What the facade returns from the string the session returned: <<>> is
\* None or the empty list
FacadeValue(o, string) ==
    CASE o.name = "zone_status" -> from_string(string)
      [] o.name = "all_zone_status" -> from_strings(split(string, EOL))
      [] OTHER -> None

\* ------------------------------------------------------------ state
VARIABLES
    mode,       \* "blocking" (Monoprice) or "suspending" (MonopriceAsync)
    pc,         \* each caller's place: idle, wait_lock, wait_send, reading
    op,         \* the facade call a caller is in
    step,       \* restore_zone's current sub-step, 0 outside it
    num_eols_to_read, \* the current cycle's threshold
    result,     \* the current cycle's accumulated (tagged) bytes
    count,      \* the current cycle's (scan offset, marker count), None at first
    elapsed,    \* ticks since the current cycle's request was written
    lastRx,     \* elapsed when the cycle's last read returned data
    sent,       \* the requests the call has written so far
    acks,       \* cycles of the call that reached their threshold
    done,       \* what the caller of the facade call that has just ended observes
    hadTimeout, \* a call of this session has failed with a timeout
    lockOwner,  \* the facade gate: self._lock (RLock / asyncio.Lock)
    lockDepth,  \* the RLock's recursion level
    waiters,    \* the asyncio.Lock's FIFO of waiting tasks
    lastAcq,    \* the caller that acquired the facade gate last
    plock,      \* MonopriceProtocol._lock
    connected,  \* MonopriceProtocol._connected
    inbuf,      \* the serial port's input buffer
    tasks,      \* chunks of data_received whose q.put task has not run yet
    q,          \* MonopriceProtocol.q
    wire,       \* the request written last and its caller: [who, req]
    owed,       \* the device has not answered the last request yet
    sentSince,  \* bytes the device sent since the request of the cycle in
                \* flight was written
    fn          \* a helper function applied outside a session: its arguments
                \* and its result

session == <<mode, pc, op, step, num_eols_to_read, result, count, elapsed, lastRx, sent,
             acks, done, hadTimeout, lockOwner, lockDepth, waiters, lastAcq, plock,
             connected, inbuf, tasks, q, wire, owed, sentSince>>
vars == <<session, fn>>

\* No helper function is being applied on its own
NoFn == [name |-> ""]

\* The locals of the call of c while it runs; they are gone when it ends
Locals(c) == [op |-> op[c], step |-> step[c], n |-> num_eols_to_read[c], res |-> result[c],
              count |-> count[c], elapsed |-> elapsed[c], lastRx |-> lastRx[c],
              sent |-> sent[c], acks |-> acks[c]]
NoLocals == [op |-> NoCall, step |-> 0, n |-> 1, res |-> <<>>, count |-> None,
             elapsed |-> 0, lastRx |-> 0, sent |-> <<>>, acks |-> 0]

\* A call's outcome: the exception raised ("" for a return), the bytes the
\* exception carries, the value returned (<<>>: None or the empty list) and
\* the string the session returned
Outcome(exc, msg, value, raw) == [exc |-> exc, msg |-> msg, value |-> value, raw |-> raw]
NoOutcome == Outcome("", <<>>, <<>>, <<>>)

NoWrite == [who |-> NoCaller, req |-> <<>>]
Timeouts == {"SerialTimeoutException", "TimeoutError"}

\* No facade call ended in the last step
NoDone == [who |-> NoCaller, out |-> NoOutcome, at |-> NoLocals, fresh |-> <<>>]

\* The session as its constructor leaves it
Fresh ==
    /\ pc = [c \in Callers |-> "idle"]
    /\ op = [c \in Callers |-> NoCall]
    /\ step = [c \in Callers |-> 0]
    /\ num_eols_to_read = [c \in Callers |-> 1]
    /\ result = [c \in Callers |-> <<>>]
    /\ count = [c \in Callers |-> None]
    /\ elapsed = [c \in Callers |-> 0]
    /\ lastRx = [c \in Callers |-> 0]
    /\ sent = [c \in Callers |-> <<>>]
    /\ acks = [c \in Callers |-> 0]
    /\ done = NoDone
    /\ hadTimeout = FALSE
    /\ lockOwner = NoCaller
    /\ lockDepth = 0
    /\ waiters = <<>>
    /\ lastAcq = NoCaller
    /\ plock = NoCaller
    \* Monoprice.__init__ opens the port; the protocol waits for connection_made
    /\ connected = (mode = "blocking")
    /\ inbuf = <<>>
    /\ tasks = <<>>
    /\ q = <<>>
    /\ wire = NoWrite
    /\ owed = FALSE
    /\ sentSince = <<>>

Init ==
    /\ mode \in {"blocking", "suspending"}
    /\ Fresh
    /\ fn = NoFn

\* ------------------------------------------------------------ gates and timer
\* A faulty variant: a plain lock, which the thread that holds it cannot take
\* again
Reenters_Plain(owner, c) == owner = NoCaller
\* threading.RLock lets thread c in when it is free or when c holds it
Reenters(owner, c) == owner = NoCaller \/ owner = c
\* A faulty variant: the method body runs without the lock being taken
RLockFree_Unguarded(c) == TRUE
\* synchronized: `with self._lock` on the RLock, which its owner re-enters
RLockFree(c) == Reenters(lockOwner, c)

\* A faulty variant: restore_zone itself does not take the gate
GateHolder_RestoreOpen(c, o) == IF o.name = "restore_zone" THEN NoCaller ELSE c
\* The owner of the facade gate while the body of call o of c runs: every
\* facade method is decorated, restore_zone too
GateHolder(c, o) == c

\* locked_coro on the facade: `async with self._lock` on the asyncio.Lock,
\* which serves its waiters first come, first served
ALockFree(c) == lockOwner = NoCaller /\ (waiters = <<>> \/ Head(waiters) = c)

\* A faulty variant: the gate is released on return only, not on exception
Released_OnReturnOnly(c, raised) == IF raised THEN c ELSE NoCaller
\* The owner of a gate once call c has left its `with` block, by return
\* (raised = FALSE) or by exception (raised = TRUE)
Released(c, raised) == NoCaller

\* A faulty variant: send does not wait for the connection
ConnectionUp_Unchecked == TRUE
\* The `connected` decorator: `await self._connected.wait()` returns at once
\* when the event is set
ConnectionUp == connected

\* A faulty variant: the read gives up one tick late
Expired_Late(w) == w >= TIMEOUT + 1
\* A read that has waited w ticks gives up: port.timeout = TIMEOUT,
\* wait_for(..., TIMEOUT)
Expired(w) == w >= TIMEOUT

\* A faulty variant: `if not c: break`, the loop ends and what was read is
\* returned
SyncOnTimeout_Break == "break"
\* `if not c: raise SerialTimeoutException(...)`
SyncOnTimeout == "raise"
\* `except asyncio.TimeoutError: ...; raise`
AsyncOnTimeout == "raise"

\* The bytes the exception carries: the blocking message formats the bytes
\* read so far, the suspending one re-raises wait_for's bare TimeoutError
\* (the bytes only go to the log)
SyncTimeoutMsg_Bare(res) == <<>>
SyncTimeoutMsg(res) == Bytes(res)
AsyncTimeoutMsg(res) == <<>>

\* A faulty variant: restore_zone swallows a sub-step's exception
RestoreContinues_Swallow(k, failed) == k < RestoreSteps
\* restore_zone goes on to sub-step k + 1 only when sub-step k returned: an
\* exception leaves it
RestoreContinues(k, failed) == ~failed /\ k < RestoreSteps

Waited(c) == elapsed[c] - lastRx[c]
Readers == {c \in Callers : pc[c] = "reading"}

\* ------------------------------------------------------------ shared effects
\* The facade call of c ends with outcome r, its locals being `at`
Exit(c, r, at) ==
    /\ pc' = [pc EXCEPT ![c] = "idle"]
    /\ done' = [who |-> c, out |-> r, at |-> at, fresh |-> sentSince]
    /\ hadTimeout' = (hadTimeout \/ r.exc \in Timeouts)
    /\ lockOwner' = Released(c, r.exc # "")
    /\ lockDepth' = IF Released(c, r.exc # "") = NoCaller THEN 0 ELSE lockDepth
    /\ op' = [op EXCEPT ![c] = NoCall]
    /\ step' = [step EXCEPT ![c] = 0]
    /\ num_eols_to_read' = [num_eols_to_read EXCEPT ![c] = 1]
    /\ result' = [result EXCEPT ![c] = <<>>]
    /\ count' = [count EXCEPT ![c] = None]
    /\ elapsed' = [elapsed EXCEPT ![c] = 0]
    /\ lastRx' = [lastRx EXCEPT ![c] = 0]
    /\ sent' = [sent EXCEPT ![c] = <<>>]
    /\ acks' = [acks EXCEPT ![c] = 0]
    /\ sentSince' = IF Readers \ {c} = {} THEN <<>> ELSE sentSince
    /\ fn' = fn

\* Call o of c starts a cycle at sub-step k: the request reaches the device,
\* which now owes its answer, and the cycle's locals are fresh
Cycle(c, o, k) ==
    /\ wire' = [who |-> c, req |-> RequestOf(o, k)]
    /\ owed' = TRUE
    /\ sentSince' = <<>>
    /\ sent' = [sent EXCEPT ![c] = Append(@, RequestOf(o, k))]
    /\ op' = [op EXCEPT ![c] = o]
    /\ step' = [step EXCEPT ![c] = k]
    /\ num_eols_to_read' = [num_eols_to_read EXCEPT ![c] = NumEols(o)]
    /\ result' = [result EXCEPT ![c] = <<>>]
    /\ count' = [count EXCEPT ![c] = None]
    /\ elapsed' = [elapsed EXCEPT ![c] = 0]
    /\ lastRx' = [lastRx EXCEPT ![c] = 0]
    /\ pc' = [pc EXCEPT ![c] = "reading"]

\* No facade call ends in this step
NoEnd == done' = NoDone /\ hadTimeout' = hadTimeout /\ fn' = fn

\* The cycle of c goes on with accumulation acc
Goes(c, acc) ==
    /\ result' = [result EXCEPT ![c] = acc.res]
    /\ count' = [count EXCEPT ![c] = acc.count]
    /\ lastRx' = [lastRx EXCEPT ![c] = elapsed[c]]
    /\ UNCHANGED <<pc, op, step, num_eols_to_read, elapsed, sent, acks>>

\* The outcome of a cycle of call o that reached its threshold with `res`:
\* decode, then the facade's return value
Decoded(o, res) ==
    IF IsAscii(Bytes(res))
    THEN Outcome("", <<>>, FacadeValue(o, Bytes(res)), Bytes(res))
    ELSE Outcome("UnicodeDecodeError", <<>>, <<>>, <<>>)

\* The locals of c when its cycle ends with accumulation acc
Final(c, acc, reached) ==
    [Locals(c) EXCEPT !.res = acc.res, !.count = acc.count,
                      !.lastRx = IF reached THEN elapsed[c] ELSE @,
                      !.acks = IF reached THEN @ + 1 ELSE @]

\* ------------------------------------------------------------ blocking mode
\* Monoprice._send_request, and _process_request's locals before its loop
_send_request(c, o, k) ==
    /\ inbuf' = <<>>
    /\ Cycle(c, o, k)

\* The synchronized method's body, entered with the lock
SyncEnter(c, o) ==
    /\ lastAcq' = c
    /\ IF BadUnit(o)
       THEN /\ Exit(c, NoOutcome, [NoLocals EXCEPT !.op = o])
            /\ UNCHANGED <<inbuf, wire, owed>>
       ELSE IF o.name = "restore_zone" /\ ~Reenters(GateHolder(c, o), c)
       THEN \* restore_zone holds the lock and its first setter blocks on it
            /\ lockOwner' = GateHolder(c, o)
            /\ lockDepth' = 1
            /\ pc' = [pc EXCEPT ![c] = "wait_lock"]
            /\ NoEnd
            /\ UNCHANGED <<op, step, num_eols_to_read, result, count, elapsed, lastRx,
                           sent, acks, inbuf, wire, owed, sentSince>>
       ELSE \* restore_zone's setters take the lock the thread holds already
            /\ lockOwner' = GateHolder(c, o)
            /\ lockDepth' = IF o.name = "restore_zone" THEN 2 ELSE 1
            /\ _send_request(c, o, IF o.name = "restore_zone" THEN 1 ELSE 0)
            /\ NoEnd
            /\ acks' = acks
    /\ UNCHANGED <<mode, waiters, plock, connected, tasks, q>>

\* A thread calls a facade method.  The call's arguments are drawn when its
\* body is entered: they play no part before.
SyncCall(c) ==
    /\ mode = "blocking"
    /\ pc[c] = "idle"
    /\ IF RLockFree(c)
       THEN \E o \in Calls : SyncEnter(c, o)
       ELSE /\ pc' = [pc EXCEPT ![c] = "wait_lock"]
            /\ NoEnd
            /\ UNCHANGED <<mode, op, step, num_eols_to_read, result, count, elapsed,
                           lastRx, sent, acks, lockOwner, lockDepth, waiters, lastAcq,
                           plock, connected, inbuf, tasks, q, wire, owed, sentSince>>

\* A blocked thread gets the lock
SyncAcquire(c) ==
    /\ mode = "blocking"
    /\ pc[c] = "wait_lock"
    /\ RLockFree(c)
    /\ \E o \in Calls : SyncEnter(c, o)

\* A faulty variant: one read takes all the bytes that have arrived
ReadLoop_Greedy(res, cnt, buf, n) ==
    [res |-> res \o buf, count |-> _subsequence_count(Bytes(res \o buf), EOL, cnt),
     buf |-> <<>>]
\* _process_request's loop while port.read(1) finds a byte in the input
\* buffer: one byte a turn, until the threshold is reached or the buffer is
\* empty.  [res, count, buf]: the accumulation, the cursor, the bytes left.
RECURSIVE ReadLoop(_, _, _, _)
ReadLoop(res, cnt, buf, n) ==
    IF buf = <<>> THEN [res |-> res, count |-> cnt, buf |-> buf]
    ELSE LET res1 == Append(res, Head(buf))
             cnt1 == _subsequence_count(Bytes(res1), EOL, cnt)
         IN  IF cnt1[2] >= n THEN [res |-> res1, count |-> cnt1, buf |-> Tail(buf)]
             ELSE ReadLoop(res1, cnt1, Tail(buf), n)

\* port.read(1) of thread c finds a byte
HasByte(c) == mode = "blocking" /\ pc[c] = "reading" /\ inbuf # <<>>

\* The thread reads the bytes that have arrived
ReadByte(c) ==
    /\ HasByte(c)
    /\ LET acc == ReadLoop(result[c], count[c], inbuf, num_eols_to_read[c])
           reached == acc.count[2] >= num_eols_to_read[c]
           r == Decoded(op[c], acc.res)
       IN  IF ~reached
           THEN /\ Goes(c, acc)
                /\ inbuf' = acc.buf
                /\ NoEnd
                /\ UNCHANGED <<lockOwner, lockDepth, wire, owed, sentSince>>
           ELSE IF r.exc = "" /\ op[c].name = "restore_zone" /\ RestoreContinues(step[c], FALSE)
           THEN \* the setter returns and restore_zone calls the next one
                /\ _send_request(c, op[c], step[c] + 1)
                /\ acks' = [acks EXCEPT ![c] = @ + 1]
                /\ NoEnd
                /\ UNCHANGED <<lockOwner, lockDepth>>
           ELSE /\ Exit(c, r, Final(c, acc, TRUE))
                /\ inbuf' = acc.buf
                /\ UNCHANGED <<wire, owed>>
    /\ UNCHANGED <<mode, waiters, lastAcq, plock, connected, tasks, q>>

\* port.read(1) returns nothing after TIMEOUT
ReadTimeout(c) ==
    /\ mode = "blocking"
    /\ pc[c] = "reading"
    /\ inbuf = <<>>
    /\ Expired(Waited(c))
    /\ IF op[c].name = "restore_zone" /\ RestoreContinues(step[c], TRUE)
       THEN /\ _send_request(c, op[c], step[c] + 1)
            /\ NoEnd
            /\ UNCHANGED <<acks, lockOwner, lockDepth>>
       ELSE /\ IF SyncOnTimeout = "raise"
               THEN Exit(c, Outcome("SerialTimeoutException", SyncTimeoutMsg(result[c]), <<>>, <<>>),
                         Locals(c))
               ELSE Exit(c, Decoded(op[c], result[c]), Locals(c))
            /\ UNCHANGED <<inbuf, wire, owed>>
    /\ UNCHANGED <<mode, waiters, lastAcq, plock, connected, tasks, q>>

\* ------------------------------------------------------------ suspending mode
\* MonopriceProtocol.send's body, entered with the protocol's lock
send(c, o, k) ==
    /\ plock' = c
    /\ inbuf' = <<>>
    /\ q' = <<>>
    /\ tasks' = AgedAll(tasks)
    /\ Cycle(c, o, k)

\* The facade coroutine's body, entered with the facade's lock, up to the
\* first point where it is suspended
AsyncEnter(c, o) ==
    /\ lastAcq' = c
    /\ IF BadUnit(o)
       THEN /\ Exit(c, NoOutcome, [NoLocals EXCEPT !.op = o])
            /\ UNCHANGED <<plock, inbuf, tasks, q, wire, owed>>
       ELSE /\ lockOwner' = GateHolder(c, o)
            /\ lockDepth' = 1
            /\ NoEnd
            /\ acks' = acks
            /\ IF ConnectionUp /\ plock = NoCaller
               THEN send(c, o, IF o.name = "restore_zone" THEN 1 ELSE 0)
               ELSE \* suspended in `connected` or at the protocol's lock
                    /\ pc' = [pc EXCEPT ![c] = "wait_send"]
                    /\ op' = [op EXCEPT ![c] = o]
                    /\ step' = [step EXCEPT ![c] = IF o.name = "restore_zone" THEN 1 ELSE 0]
                    /\ UNCHANGED <<num_eols_to_read, result, count, elapsed, lastRx, sent,
                                   plock, inbuf, tasks, q, wire, owed, sentSince>>
    /\ UNCHANGED <<mode, connected>>

\* A task calls a facade coroutine
AsyncCall(c) ==
    /\ mode = "suspending"
    /\ pc[c] = "idle"
    /\ IF ALockFree(c)
       THEN /\ \E o \in Calls : AsyncEnter(c, o)
            /\ waiters' = waiters
       ELSE /\ pc' = [pc EXCEPT ![c] = "wait_lock"]
            /\ waiters' = Append(waiters, c)
            /\ NoEnd
            /\ UNCHANGED <<mode, op, step, num_eols_to_read, result, count, elapsed,
                           lastRx, sent, acks, lockOwner, lockDepth, lastAcq, plock,
                           connected, inbuf, tasks, q, wire, owed, sentSince>>

\* The first waiting task gets the facade's lock
AsyncAcquire(c) ==
    /\ mode = "suspending"
    /\ pc[c] = "wait_lock"
    /\ ALockFree(c)
    /\ waiters' = Tail(waiters)
    /\ \E o \in Calls : AsyncEnter(c, o)

\* A task suspended before send's body goes on: the connection is up and
\* the protocol's lock is free
SendResume(c) ==
    /\ mode = "suspending"
    /\ pc[c] = "wait_send"
    /\ ConnectionUp
    /\ plock = NoCaller
    /\ send(c, op[c], step[c])
    /\ NoEnd
    /\ UNCHANGED <<mode, acks, lockOwner, lockDepth, waiters, lastAcq, connected>>

\* MonopriceProtocol.connection_made
connection_made ==
    /\ mode = "suspending"
    /\ ~connected
    /\ connected' = TRUE
    /\ NoEnd
    /\ UNCHANGED <<mode, pc, op, step, num_eols_to_read, result, count, elapsed, lastRx,
                   sent, acks, lockOwner, lockDepth, waiters, lastAcq, plock, inbuf, tasks,
                   q, wire, owed, sentSince>>

\* MonopriceProtocol.data_received: the transport hands over what the port
\* holds as one chunk, and a task that will put it in the queue is created
data_received ==
    /\ mode = "suspending"
    /\ connected
    /\ inbuf # <<>>
    /\ tasks' = Append(tasks, inbuf)
    /\ inbuf' = <<>>
    /\ NoEnd
    /\ UNCHANGED <<mode, pc, op, step, num_eols_to_read, result, count, elapsed, lastRx,
                   sent, acks, lockOwner, lockDepth, waiters, lastAcq, plock, connected,
                   q, wire, owed, sentSince>>

\* A faulty variant: the task created last runs first
NextTask_Newest(ts) == Len(ts)
\* The q.put task that runs next: create_task schedules a task's first step
\* with call_soon, and the loop runs what is scheduled first in, first out
NextTask(ts) == 1

\* The next q.put task runs: the queue is unbounded, so put() ends in one step
PutTask ==
    /\ tasks # <<>>
    /\ q' = Append(q, tasks[NextTask(tasks)])
    /\ tasks' = [j \in 1..(Len(tasks) - 1) |->
                    IF j < NextTask(tasks) THEN tasks[j] ELSE tasks[j + 1]]
    /\ NoEnd
    /\ UNCHANGED <<mode, pc, op, step, num_eols_to_read, result, count, elapsed, lastRx,
                   sent, acks, lockOwner, lockDepth, waiters, lastAcq, plock, connected,
                   inbuf, wire, owed, sentSince>>

\* q.get() of task c finds a chunk
HasChunk(c) == mode = "suspending" /\ pc[c] = "reading" /\ q # <<>>

\* wait_for(self.q.get(), TIMEOUT) returns a chunk: one turn of send's loop
AsyncGet(c) ==
    /\ HasChunk(c)
    /\ LET res == result[c] \o Head(q)
           acc == [res |-> res, count |-> _subsequence_count(Bytes(res), EOL, count[c])]
           reached == acc.count[2] >= num_eols_to_read[c]
           r == Decoded(op[c], acc.res)
       IN  IF ~reached
           THEN /\ Goes(c, acc)
                /\ q' = Tail(q)
                /\ NoEnd
                /\ UNCHANGED <<lockOwner, lockDepth, plock, inbuf, tasks, wire, owed, sentSince>>
           ELSE IF r.exc = "" /\ op[c].name = "restore_zone" /\ RestoreContinues(step[c], FALSE)
           THEN \* send returns and restore_zone awaits the next one
                /\ send(c, op[c], step[c] + 1)
                /\ acks' = [acks EXCEPT ![c] = @ + 1]
                /\ NoEnd
                /\ UNCHANGED <<lockOwner, lockDepth>>
           ELSE /\ Exit(c, r, Final(c, acc, TRUE))
                /\ plock' = Released(c, r.exc # "")
                /\ q' = Tail(q)
                /\ UNCHANGED <<inbuf, tasks, wire, owed>>
    /\ UNCHANGED <<mode, waiters, lastAcq, connected>>

\* wait_for(self.q.get(), TIMEOUT) raises asyncio.TimeoutError
AsyncTimeout(c) ==
    /\ mode = "suspending"
    /\ pc[c] = "reading"
    /\ q = <<>>
    /\ Expired(Waited(c))
    /\ IF op[c].name = "restore_zone" /\ RestoreContinues(step[c], TRUE)
       THEN /\ send(c, op[c], step[c] + 1)
            /\ NoEnd
            /\ UNCHANGED <<acks, lockOwner, lockDepth>>
       ELSE /\ IF AsyncOnTimeout = "raise"
               THEN Exit(c, Outcome("TimeoutError", AsyncTimeoutMsg(result[c]), <<>>, <<>>),
                         Locals(c))
               ELSE Exit(c, Decoded(op[c], result[c]), Locals(c))
            /\ plock' = Released(c, TRUE)
            /\ UNCHANGED <<inbuf, tasks, q, wire, owed>>
    /\ UNCHANGED <<mode, waiters, lastAcq, connected>>

\* ------------------------------------------------------------ environment
\* The device answers the last request with one fragment, once and at any
\* time after the request was written, also when the call has timed out
DeviceSend(f) ==
    /\ owed
    /\ owed' = FALSE
    /\ inbuf' = inbuf \o Tagged(f)
    /\ sentSince' = IF Readers = {} THEN <<>> ELSE sentSince \o f
    /\ NoEnd
    /\ UNCHANGED <<mode, pc, op, step, num_eols_to_read, result, count, elapsed, lastRx,
                   sent, acks, lockOwner, lockDepth, waiters, lastAcq, plock, connected,
                   tasks, q, wire>>

\* Nothing a waiting read could take is on its way
NothingToRead ==
    IF mode = "blocking" THEN inbuf = <<>>
    ELSE q = <<>> /\ tasks = <<>> /\ inbuf = <<>>

\* A tick of the clock while a read waits
Tick ==
    /\ Readers # {}
    /\ NothingToRead
    /\ \A c \in Readers : ~Expired(Waited(c))
    /\ elapsed' = [c \in Callers |-> IF c \in Readers THEN elapsed[c] + 1 ELSE elapsed[c]]
    /\ NoEnd
    /\ UNCHANGED <<mode, pc, op, step, num_eols_to_read, result, count, lastRx, sent,
                   acks, lockOwner, lockDepth, waiters, lastAcq, plock, connected, inbuf,
                   tasks, q, wire, owed, sentSince>>

Next ==
    \/ \E c \in Callers : SyncCall(c)
    \/ \E c \in Callers : SyncAcquire(c)
    \/ \E c \in Callers : ReadByte(c)
    \/ \E c \in Callers : ReadTimeout(c)
    \/ \E c \in Callers : AsyncCall(c)
    \/ \E c \in Callers : AsyncAcquire(c)
    \/ \E c \in Callers : SendResume(c)
    \/ connection_made
    \/ data_received
    \/ PutTask
    \/ \E c \in Callers : AsyncGet(c)
    \/ \E c \in Callers : AsyncTimeout(c)
    \/ \E f \in Fragments : DeviceSend(f)
    \/ Tick

Spec == Init /\ [][Next]_vars

\* ------------------------------------------------------------ a reply in pieces
\* What the device sends, byte after byte: the broken reply of
\* test_zone_status_broken, and a marker between two stray bytes
Streams == {EOL \o <<">">> \o EOL, <<"\r">> \o EOL \o <<"\n">>}

\* A suspending session right after its first call has written its request:
\* the state connection_made and then AsyncCall of the first caller lead to
\* from a fresh session, with a device that has a stream to send
ChunkInit ==
    /\ mode = "suspending"
    /\ fn \in {[name |-> "stream", rest |-> s] : s \in Streams}
    /\ \E o \in {x \in Calls : ~BadUnit(x)} :
          LET k == IF o.name = "restore_zone" THEN 1 ELSE 0
              first == SetMin(Callers)
              On(old, new) == [c \in Callers |-> IF c = first THEN new ELSE old]
          IN  /\ connected = TRUE
              /\ pc = On("idle", "reading")
              /\ op = On(NoCall, o)
              /\ step = On(0, k)
              /\ num_eols_to_read = On(1, NumEols(o))
              /\ sent = On(<<>>, <<RequestOf(o, k)>>)
              /\ wire = [who |-> first, req |-> RequestOf(o, k)]
              /\ lockOwner = GateHolder(first, o)
              /\ lastAcq = first
              /\ plock = first
    /\ lockDepth = 1
    /\ owed = TRUE
    /\ result = [c \in Callers |-> <<>>]
    /\ count = [c \in Callers |-> None]
    /\ elapsed = [c \in Callers |-> 0]
    /\ lastRx = [c \in Callers |-> 0]
    /\ acks = [c \in Callers |-> 0]
    /\ done = NoDone
    /\ hadTimeout = FALSE
    /\ waiters = <<>>
    /\ inbuf = <<>>
    /\ tasks = <<>>
    /\ q = <<>>
    /\ sentSince = <<>>

\* The next bytes of the stream reach the port, any number of them at a time
Arrive ==
    /\ fn.name = "stream"
    /\ wire.who # NoCaller
    /\ \E k \in 1..Len(fn.rest) :
          /\ inbuf' = inbuf \o Tagged(SubSeq(fn.rest, 1, k))
          /\ sentSince' = IF Readers = {} THEN <<>> ELSE sentSince \o SubSeq(fn.rest, 1, k)
          /\ fn' = [fn EXCEPT !.rest = SubSeq(fn.rest, k + 1, Len(fn.rest))]
    /\ done' = NoDone /\ hadTimeout' = hadTimeout
    /\ UNCHANGED <<mode, pc, op, step, num_eols_to_read, result, count, elapsed, lastRx,
                   sent, acks, lockOwner, lockDepth, waiters, lastAcq, plock, connected,
                   tasks, q, wire, owed>>

ChunkNext ==
    \/ data_received
    \/ PutTask
    \/ \E c \in Callers : AsyncGet(c)
    \/ \E c \in Callers : AsyncTimeout(c)
    \/ Arrive
    \/ Tick

ChunkSpec == ChunkInit /\ [][ChunkNext]_vars

\* A number below 100 as the device writes it: two decimal digits
TwoDigits(n) == <<DigitChar(n \div 10), DigitChar(n % 10)>>

\* ------------------------------------------------------------ the command encoder alone
\* The zones, the integers and the values of other types a setter is called
\* with: every integer from Margin below the lowest limit to Margin above the
\* highest, the tests' 100 and -100, and the tests' True, 'True', 1, False,
\* None, 0, ''
Zones == {13, 36}
IntValues == ((0 - Margin)..(38 + Margin)) \cup {100, 0 - 100}
Flags == {PyBool(TRUE), PyBool(FALSE), PyInt(1), PyInt(0), PyInt(2), PyInt(0 - 1), PyNone,
          PyStr(<<>>), PyStr(<<"T", "r", "u", "e">>), PyStr(<<"F", "a", "l", "s", "e">>),
          PyStr(<<"0">>)}
ArgumentsOf(setter) ==
    IF setter \in {"set_power", "set_mute"} THEN Flags ELSE {PyInt(v) : v \in IntValues}

\* A setter is about to format its request
EncodeInit ==
    /\ mode = "blocking"
    /\ Fresh
    /\ fn \in UNION {{[name |-> "format", setter |-> f, zone |-> z, value |-> x, request |-> <<>>] :
                        z \in Zones, x \in ArgumentsOf(f)} : f \in Setters}

\* The setter formats its request
Format ==
    /\ fn.name = "format"
    /\ fn.request = <<>>
    /\ fn' = [fn EXCEPT !.request = SetRequest(fn.setter, fn.zone, fn.value)]
    /\ UNCHANGED session

EncodeNext == Format
EncodeSpec == EncodeInit /\ [][EncodeNext]_vars

\* ------------------------------------------------------------ the status decoder alone
\* A status line as the device writes it: ">" and eleven two-digit groups
RECURSIVE GroupDigits(_)
GroupDigits(g) == IF g = <<>> THEN <<>> ELSE TwoDigits(Head(g)) \o GroupDigits(Tail(g))
LineOf(g) == <<">">> \o GroupDigits(g)
\* The groups of a status, a flag being 01 or 00, and the line of a status
GroupsOf(z) ==
    <<z.zone, BoolInt(z.pa), BoolInt(z.power), BoolInt(z.mute), BoolInt(z.do_not_disturb),
      z.volume, z.treble, z.bass, z.balance, z.source, BoolInt(z.keypad)>>
StatusLine(z) == LineOf(GroupsOf(z))
\* The status eleven groups stand for
StatusOf(g) ==
    [zone |-> g[1], pa |-> g[2] # 0, power |-> g[3] # 0, mute |-> g[4] # 0,
     do_not_disturb |-> g[5] # 0, volume |-> g[6], treble |-> g[7], bass |-> g[8],
     balance |-> g[9], source |-> g[10], keypad |-> g[11] # 0]

\* Statuses at the ends of the documented ranges
Statuses ==
    [zone : {11, 36}, pa : BOOLEAN, power : BOOLEAN, mute : BOOLEAN, do_not_disturb : BOOLEAN,
     volume : {0, 38}, treble : {7, 14}, bass : {0, 14}, balance : {10, 20}, source : {1, 6},
     keypad : BOOLEAN]
\* The groups of the tests' zones 11 and 12, and groups in which a flag is
\* neither 00 nor 01
Groups11 == <<11, 0, 1, 0, 0, 13, 11, 12, 10, 4, 1>>
Groups12 == <<12, 0, 0, 0, 1, 15, 7, 7, 10, 6, 0>>
GroupVectors == {Groups11, Groups12, <<36, 10, 0, 2, 99, 0, 14, 0, 20, 6, 20>>}

\* Noise around a status line: markers' bytes, a stray ">" and digits
NoiseAlphabet == {"\r", "#", ">", "1"}
RECURSIVE Noise(_)
Noise(n) ==
    IF n = 0 THEN {<<>>}
    ELSE LET shorter == Noise(n - 1)
         IN  shorter \cup {Append(x, b) : x \in {y \in shorter : Len(y) = n - 1}, b \in NoiseAlphabet}
\* The echoed request and marker that precede a status line in a reply
Echo == <<"?", "1", "1">> \o EOL

\* A status line spoiled: a group dropped, the last digit dropped, or a
\* character that is no digit in a group
Spoiled(line) ==
    {SubSeq(line, 1, 2 * k - 1) \o SubSeq(line, 2 * k + 2, Len(line)) : k \in 1..11}
    \cup {SubSeq(line, 1, Len(line) - 1)}
    \cup {[line EXCEPT ![i] = ch] : i \in 2..Len(line), ch \in {"a", "\r", ">"}}
\* Strings that hold no status: the empty string (or None), the tests' "aaa"
\* and "\r\n#>\r\n#", and spoiled lines bare and between markers
BrokenLines ==
    {<<>>, <<"a", "a", "a">>, EOL \o <<">">> \o EOL}
    \cup Spoiled(LineOf(Groups11))
    \cup {EOL \o b \o EOL : b \in Spoiled(LineOf(Groups11))}

\* The lines parsed in bulk, each with the status it holds if any
Candidates ==
    {[line |-> <<"a", "a", "a">>, status |-> <<>>],
     [line |-> <<>>, status |-> <<>>],
     [line |-> <<"i">> \o LineOf(Groups11) \o <<"i">>, status |-> <<StatusOf(Groups11)>>],
     [line |-> LineOf(Groups12) \o <<"\r">>, status |-> <<StatusOf(Groups12)>>],
     [line |-> SubSeq(LineOf(Groups11), 1, 21) \o <<"\r">>, status |-> <<>>]}
RECURSIVE Lists(_)
Lists(n) ==
    IF n = 0 THEN {<<>>}
    ELSE LET shorter == Lists(n - 1)
         IN  shorter \cup {Append(x, b) : x \in {y \in shorter : Len(y) = n - 1}, b \in Candidates}
RECURSIVE StatusesIn(_)
StatusesIn(list) == IF list = <<>> THEN <<>> ELSE Head(list).status \o StatusesIn(Tail(list))
LinesOf(list) == [i \in 1..Len(list) |-> list[i].line]
\* The reply to a whole-unit query that holds the lines of a list: the
\* echoed request, and a marker after it and after every line
RECURSIVE Joined(_)
Joined(lines) == IF lines = <<>> THEN <<>> ELSE Head(lines) \o EOL \o Joined(Tail(lines))
UnitReplyOf(list) == <<"?", "1", "0">> \o EOL \o Joined(LinesOf(list))

\* A string, a list of strings or a reply about to be decoded; `expect` is
\* what it was made from
Job(name, kind, string, strings, expect) ==
    [name |-> name, kind |-> kind, string |-> string, strings |-> strings,
     expect |-> expect, result |-> <<>>, decoded |-> FALSE]
DecodeInit ==
    /\ mode = "blocking"
    /\ Fresh
    /\ \/ fn \in {Job("from_string", "clean", StatusLine(z), <<>>, <<z>>) : z \in Statuses}
       \/ fn \in {Job("from_string", "noisy", a \o LineOf(g) \o b, <<>>, <<StatusOf(g)>>) :
                     g \in GroupVectors, a \in Noise(NoiseLen),
                     b \in Noise(NoiseLen) \cup {EOL \o LineOf(Groups12)}}
       \/ fn \in {Job("zone_status", "noisy", a \o LineOf(g) \o EOL, <<>>, <<StatusOf(g)>>) :
                     g \in GroupVectors, a \in {EOL, Echo}}
       \/ fn \in {Job("from_string", "broken", b, <<>>, <<>>) : b \in BrokenLines}
       \/ fn \in {Job("zone_status", "broken", EOL \o b \o EOL, <<>>, <<>>) : b \in BrokenLines}
       \/ fn \in {Job("from_strings", "list", <<>>, LinesOf(l), StatusesIn(l)) : l \in Lists(MaxLines)}
       \/ fn \in {Job("all_zone_status", "list", UnitReplyOf(l), <<>>, StatusesIn(l)) :
                     l \in Lists(MaxLines)}

\* ZoneStatus.from_string is applied to the string
Parse ==
    /\ fn.name = "from_string" /\ ~fn.decoded
    /\ fn' = [fn EXCEPT !.result = from_string(fn.string), !.decoded = TRUE]
    /\ UNCHANGED session
\* ZoneStatus.from_strings is applied to the list
ParseAll ==
    /\ fn.name = "from_strings" /\ ~fn.decoded
    /\ fn' = [fn EXCEPT !.result = from_strings(fn.strings), !.decoded = TRUE]
    /\ UNCHANGED session
\* zone_status / all_zone_status turn the string the session returned into
\* their value
Answer ==
    /\ fn.name \in {"zone_status", "all_zone_status"} /\ ~fn.decoded
    /\ fn' = [fn EXCEPT !.result = FacadeValue(Call(fn.name, 1, 0), fn.string),
                        !.decoded = TRUE]
    /\ UNCHANGED session

DecodeNext == Parse \/ ParseAll \/ Answer
DecodeSpec == DecodeInit /\ [][DecodeNext]_vars

\* ------------------------------------------------------------ the frame accumulator alone
\* The marker of the protocol and the self-overlapping marker of
\* test_subsequent_count
TestMarker == <<"\r", "\r">>
Markers == {EOL, TestMarker}
\* The bytes a buffer is made of
Alphabet == {"\r", "\n", "#"}
RECURSIVE Strings(_)
Strings(n) ==
    IF n = 0 THEN {<<>>}
    ELSE LET shorter == Strings(n - 1)
         IN  shorter \cup {Append(x, b) : x \in {y \in shorter : Len(y) = n - 1}, b \in Alphabet}

\* A read loop before its first read: nothing accumulated, count = None, and
\* the bytes still to come; `before` is the length the buffer had before the
\* latest append
CountInit ==
    /\ mode = "blocking"
    /\ Fresh
    /\ fn \in {[name |-> "_subsequence_count", sub |-> m, sequence |-> <<>>,
                 rest |-> r, previous |-> None, before |-> 0] :
                    m \in Markers, r \in Strings(MaxLen)}

\* One turn of a read loop: some bytes are appended to the buffer and the
\* counter is called on the whole buffer with the state it returned last
Accumulate ==
    /\ fn.name = "_subsequence_count"
    /\ \E k \in 1..Len(fn.rest) :
          LET sequence == fn.sequence \o SubSeq(fn.rest, 1, k)
          IN  fn' = [fn EXCEPT !.sequence = sequence,
                               !.before = Len(fn.sequence),
                               !.rest = SubSeq(fn.rest, k + 1, Len(fn.rest)),
                               !.previous = _subsequence_count(sequence, fn.sub, fn.previous)]
    /\ UNCHANGED session

\* The offsets and counts of the prior states a single call is given: every
\* offset up to just past the longest buffer, and the test's offset 10
PriorStates ==
    {<<o, n>> : o \in (0..(MaxLen + 1)) \cup {10}, n \in 0..1}
\* A single call about to be made: a buffer, a marker and a prior state, which
\* is None or any pair, also one whose offset lies beyond the buffer's end
ResumeInit ==
    /\ mode = "blocking"
    /\ Fresh
    /\ fn \in {[name |-> "resume", sub |-> m, sequence |-> s, previous |-> p,
                 called |-> FALSE, returned |-> None] :
                    m \in Markers, s \in Strings(MaxLen), p \in {None} \cup PriorStates}
\* The call: _subsequence_count(sequence, sub, previous)
Resume ==
    /\ fn.name = "resume" /\ ~fn.called
    /\ fn' = [fn EXCEPT !.called = TRUE,
                         !.returned = _subsequence_count(fn.sequence, fn.sub, fn.previous)]
    /\ UNCHANGED session

CountNext == Accumulate \/ Resume
CountSpec == (CountInit \/ ResumeInit) /\ [][CountNext]_vars

\* ------------------------------------------------------------ the receive loop
\* The receive loop of _process_request and of send, on its own, with a
\* device that sends what it likes for as long as it likes.
\* A faulty variant: the loop turns again when a read times out
TimeoutEnds_Retry == FALSE
\* `if not c: raise ...` / `except asyncio.TimeoutError: ...; raise`: a read
\* that times out ends the loop
TimeoutEnds == TRUE

\* What one read hands the loop: one byte from port.read(1), a chunk of
\* up to NoiseLen bytes from q.get()
Reads == IF mode = "blocking" THEN {<<b>> : b \in Alphabet}
         ELSE Strings(NoiseLen) \ {<<>>}

\* The buffer as the model keeps it: its last MaxLen bytes, the scan offset
\* moved with them.  No marker lies whole in the bytes from the offset on, so
\* a marker found later ends in bytes still to come and begins within the
\* last LEN_EOL - 1 bytes kept.
Kept(res, cnt) ==
    LET d == Max2(0, Len(res) - MaxLen)
    IN  [result |-> SubSeq(res, d + 1, Len(res)),
         count |-> <<Max2(0, cnt[1] - d), cnt[2]>>]

\* The loop before its first read, for each threshold the facade passes
ReadInit ==
    /\ mode \in {"blocking", "suspending"}
    /\ Fresh
    /\ fn \in {[name |-> "read", n |-> NumEols(o), result |-> <<>>, count |-> None,
                 waited |-> 0, silent |-> FALSE, state |-> "reading"] :
                    o \in {x \in Calls : ~BadUnit(x)}}

InLoop == fn.name = "read" /\ fn.state = "reading"

\* A read returns data before its timeout: result += data, the count is
\* brought up to date, and the loop ends if the threshold is reached
Take ==
    /\ InLoop /\ ~fn.silent /\ ~Expired(fn.waited)
    /\ \E data \in Reads :
          LET result1 == fn.result \o data
              count1 == _subsequence_count(result1, EOL, fn.count)
              kept == Kept(result1, count1)
          IN  fn' = [fn EXCEPT !.result = kept.result, !.count = kept.count,
                               !.waited = 0,
                               !.state = IF count1[2] >= fn.n THEN "returned" ELSE "reading"]
    /\ UNCHANGED session

\* A tick passes while the read waits
Wait ==
    /\ InLoop /\ ~Expired(fn.waited)
    /\ fn' = [fn EXCEPT !.waited = @ + 1]
    /\ UNCHANGED session

\* The read times out
GiveUp ==
    /\ InLoop /\ Expired(fn.waited)
    /\ fn' = IF TimeoutEnds THEN [fn EXCEPT !.state = "timeout"]
              ELSE [fn EXCEPT !.waited = 0]
    /\ UNCHANGED session

\* The device falls silent for good
Silence ==
    /\ InLoop /\ ~fn.silent
    /\ fn' = [fn EXCEPT !.silent = TRUE]
    /\ UNCHANGED session

ReadNext == Take \/ Wait \/ GiveUp \/ Silence
\* Time passes, and a read whose timeout has come returns
ReadSpec == ReadInit /\ [][ReadNext]_vars /\ WF_vars(Wait) /\ WF_vars(GiveUp)

\* ------------------------------------------------------------ properties
\* The facade call that has just ended, if one has
Ended == done.who # NoCaller
\* ... and it ran at least one request/response cycle
EndedCycle == Ended /\ done.at.sent # <<>>
Returned == Ended /\ done.out.exc = ""
TimedOut == Ended /\ done.out.exc \in Timeouts

\* The number of places at which the marker occurs in s (the marker cannot
\* overlap itself)
Occurrences(s) == Cardinality({i \in 0..(Len(s) - LEN_EOL) : find(s, EOL, i) = i})

\* The markers that complete a reply, by request type
ExpectedMarkers(name) ==
    IF name = "zone_status" THEN 2 ELSE IF name = "all_zone_status" THEN 7 ELSE 1

\* The timeout error of the session's mode
ModeTimeout == IF mode = "blocking" THEN "SerialTimeoutException" ELSE "TimeoutError"

\* C1: at most one request/response cycle is in flight; while a call's cycle
\* is in flight the request written last is that call's own (no other call
\* has written since), and the call in flight is the one that acquired the
\* gate last and still holds it, so requests reach the wire in the order in
\* which their calls acquired the gate.
C1_OneCycleInFlight ==
    /\ Cardinality(Readers) <= 1
    /\ \A c \in Readers : wire.who = c /\ lastAcq = c /\ lockOwner = c
    /\ \A c \in Callers : pc[c] = "wait_send" => lastAcq = c /\ lockOwner = c
\* A cycle is in flight while another caller waits for the gate
C1_Witness ==
    \E c, d \in Callers : pc[c] = "reading" /\ pc[d] = "wait_lock" /\ sent[c] # <<>>

\* C2: when a call fails with a timeout the gate is released at once, a gate
\* is only ever held by a call that is still running, a caller waiting for a
\* free gate can take it, and a call that ends normally after an earlier
\* timeout has run a full fresh cycle of its own.
C2_GateReleasedOnTimeout ==
    /\ TimedOut => lockOwner = NoCaller /\ plock = NoCaller /\ pc[done.who] = "idle"
    /\ lockOwner # NoCaller => pc[lockOwner] \in {"wait_send", "reading"}
    /\ plock # NoCaller => pc[plock] = "reading"
    /\ \A c \in Callers : pc[c] = "wait_lock" /\ lockOwner = NoCaller =>
          IF mode = "blocking" THEN RLockFree(c)
          ELSE waiters # <<>> /\ pc[Head(waiters)] = "wait_lock" /\ ALockFree(Head(waiters))
    /\ hadTimeout /\ Returned /\ EndedCycle =>
          /\ done.at.acks = Len(done.at.sent)
          /\ Occurrences(done.out.raw) >= ExpectedMarkers(done.at.op.name)
\* After a timeout on the session, a later call has returned normally
C2_Witness ==
    hadTimeout /\ Returned /\ EndedCycle /\ done.at.op.name = "zone_status" /\ done.out.value # <<>>

\* C3 as claimed: one timeout window covers the whole accumulation, so a
\* cycle is never in flight longer than TIMEOUT.
C3_OneWindowForAll ==
    /\ \A c \in Readers : elapsed[c] <= TIMEOUT
    /\ TimedOut => done.at.elapsed = TIMEOUT
\* C3 amended: the timeout bounds each single read (one byte in blocking
\* mode, one chunk in suspending mode): a read never waits longer than
\* TIMEOUT, the window starts again when a byte or a chunk arrives, and a call
\* times out exactly when TIMEOUT has passed since the last arrival.
C3_WindowPerRead ==
    /\ \A c \in Readers : Waited(c) <= TIMEOUT /\ lastRx[c] <= elapsed[c]
    /\ \A c \in Readers : result[c] = <<>> => lastRx[c] = 0
    /\ TimedOut => done.at.elapsed - done.at.lastRx = TIMEOUT
\* A cycle in flight for longer than TIMEOUT, its window started again by data
C3_Witness ==
    \E c \in Readers : result[c] # <<>> /\ lastRx[c] > 0 /\ elapsed[c] > TIMEOUT

\* C4: a call that wrote a request and got no byte at all ends with the
\* mode's timeout error, returns no value, and has written exactly one
\* request.
C4_SilentDeviceTimesOut ==
    EndedCycle /\ done.at.acks = 0 /\ done.at.res = <<>> =>
        /\ done.out.exc = ModeTimeout
        /\ done.out.value = <<>> /\ done.out.raw = <<>>
        /\ Len(done.at.sent) = 1
        /\ done.at.sent[1] = RequestOf(done.at.op, done.at.step)
C4_Witness ==
    /\ EndedCycle /\ done.at.res = <<>> /\ done.out.exc = ModeTimeout
    /\ done.at.op.name = "set_source" /\ done.at.elapsed = TIMEOUT

\* C5: the threshold is 2 markers for a single-zone query, 7 for a whole-unit
\* query and 1 for a set command and a restore sub-step; a cycle still
\* reading holds fewer markers than its threshold, and a cycle that returned
\* holds at least that many.
C5_MarkerThresholds ==
    /\ \A c \in Readers :
          /\ num_eols_to_read[c] = ExpectedMarkers(op[c].name)
          /\ Occurrences(Bytes(result[c])) < ExpectedMarkers(op[c].name)
    /\ Returned /\ EndedCycle =>
          /\ done.at.n = ExpectedMarkers(done.at.op.name)
          /\ Occurrences(done.out.raw) >= ExpectedMarkers(done.at.op.name)
          /\ done.out.raw = Bytes(done.at.res)
\* A whole-unit query has returned with its seven markers
C5_Witness ==
    Returned /\ done.at.op.name = "all_zone_status" /\ Occurrences(done.out.raw) = 7

\* C6 as claimed: the accumulation of a cycle holds no byte that came in
\* before the cycle's request was written.
C6_NoStaleByte ==
    /\ \A c \in Readers : \A i \in 1..Len(result[c]) : result[c][i].e = "new"
    /\ Ended => \A i \in 1..Len(done.at.res) : done.at.res[i].e = "new"

\* What the blocking loop makes of the bytes the device sent during the
\* cycle of call o
BlockingOutcome(o, bytes) ==
    LET acc == ReadLoop(<<>>, None, Tagged(bytes), NumEols(o))
    IN  IF acc.count # None /\ acc.count[2] >= NumEols(o)
        THEN [ok |-> TRUE, value |-> Decoded(o, acc.res).value]
        ELSE [ok |-> FALSE, value |-> <<>>]
\* C7 as claimed: given the bytes the device sent in answer to a call's last
\* request (all of them delivered by the time the call ends), the call fails
\* or returns, and returns the same value, whatever the mode: as the blocking
\* loop does.
C7_SameInBothModes ==
    EndedCycle /\ inbuf = <<>> /\ tasks = <<>> /\ q = <<>> =>
        /\ (done.out.exc = "") = BlockingOutcome(done.at.op, done.fresh).ok
        /\ done.out.value = BlockingOutcome(done.at.op, done.fresh).value

\* The seven requests restore_zone writes for the snapshot of zone 11
\* (test_restore_zone): <11PR01 <11MU00 <11VO13 <11TR11 <11BS12 <11BL10 <11CH04
SetBytes(a, b, d, e) == <<"<", "1", "1", a, b, d, e, "\r">>
ExpectedRestore ==
    <<SetBytes("P", "R", "0", "1"), SetBytes("M", "U", "0", "0"), SetBytes("V", "O", "1", "3"),
      SetBytes("T", "R", "1", "1"), SetBytes("B", "S", "1", "2"), SetBytes("B", "L", "1", "0"),
      SetBytes("C", "H", "0", "4")>>

\* C8: restore_zone writes the seven set commands of the snapshot in the
\* order power, mute, volume, treble, bass, balance, source; the request of
\* sub-step k is written when exactly k - 1 sub-steps have been acknowledged.
C8_RestoreSequence ==
    /\ \A c \in Callers : op[c].name = "restore_zone" /\ pc[c] = "reading" =>
          /\ step[c] \in 1..7
          /\ sent[c] = SubSeq(ExpectedRestore, 1, step[c])
          /\ acks[c] = step[c] - 1
    /\ Returned /\ done.at.op.name = "restore_zone" =>
          /\ done.at.sent = ExpectedRestore
          /\ done.at.acks = 7
C8_Witness ==
    Returned /\ done.at.op.name = "restore_zone" /\ Len(done.at.sent) = 7

\* C9: when sub-step k of restore_zone times out the caller gets the mode's
\* timeout error, the requests written are exactly those of sub-steps 1..k,
\* of which the first k - 1 were acknowledged, and the call is over (it holds
\* no gate and writes nothing more).
C9_RestoreAborts ==
    TimedOut /\ done.at.op.name = "restore_zone" =>
        /\ done.out.exc = ModeTimeout
        /\ done.at.step \in 1..7
        /\ done.at.sent = SubSeq(ExpectedRestore, 1, done.at.step)
        /\ done.at.acks = done.at.step - 1
        /\ pc[done.who] = "idle" /\ sent[done.who] = <<>>
        /\ lockOwner # done.who /\ plock # done.who
\* restore_zone has failed in the middle of its sequence
C9_Witness ==
    TimedOut /\ done.at.op.name = "restore_zone" /\ done.at.step = 4 /\ done.at.acks = 3

\* C10 as claimed: in both modes the timeout error carries the bytes received
\* so far.
C10_ErrorCarriesBytes == TimedOut => done.out.msg = Bytes(done.at.res)
\* C10 amended: the blocking mode's timeout error carries the bytes received
\* so far; the suspending mode's carries none (they are only logged).
C10_BlockingErrorCarriesBytes ==
    TimedOut => done.out.msg = (IF mode = "blocking" THEN Bytes(done.at.res) ELSE <<>>)
C10_Witness ==
    TimedOut /\ mode = "blocking" /\ done.at.res # <<>> /\ done.out.msg = Bytes(done.at.res)

\* C11: while the connection has not been signalled nothing is written, no
\* cycle starts and no call fails; a call suspended in send leaves that wait
\* only when the connection is up, by writing its own request and starting a
\* fresh cycle, and once the connection is up nothing holds it back.
C11_WaitsForConnection ==
    [][/\ ~connected =>
            /\ wire = NoWrite /\ wire' = NoWrite
            /\ done'.out.exc = "" /\ ~hadTimeout'
            /\ \A c \in Callers : sent'[c] = <<>> /\ pc'[c] # "reading"
       /\ \A c \in Callers : pc[c] = "wait_send" /\ pc'[c] # "wait_send" =>
            /\ connected
            /\ pc'[c] = "reading" /\ op'[c] = op[c]
            /\ wire' = [who |-> c, req |-> RequestOf(op[c], step[c])]
            /\ sent'[c] = <<wire'.req>> /\ result'[c] = <<>> /\ elapsed'[c] = 0
       /\ \A c \in Callers : pc[c] = "wait_send" /\ connected =>
            mode = "suspending" /\ lockOwner = c /\ plock = NoCaller]_vars
\* A call made before connection_made is suspended in send, and the
\* connection has now been signalled
C11_Witness == \E c \in Callers : pc[c] = "wait_send" /\ connected /\ wire = NoWrite

\* An all_zone_status call with a unit code outside 1..3
InvalidUnit(o) == o.name = "all_zone_status" /\ o.n \notin 1..3
\* C12: an all_zone_status call with a unit code outside 1..3 ends in the step
\* in which its body is entered, with the empty sequence and no error; it
\* writes nothing and leaves the buffers, the queue and the wire as they were.
C12_InvalidUnitIsEmpty ==
    [][Ended' /\ InvalidUnit(done'.at.op) =>
            /\ done'.out.exc = "" /\ done'.out.value = <<>>
            /\ done'.at.sent = <<>>
            /\ wire' = wire /\ owed' = owed
            /\ inbuf' = inbuf /\ tasks' = tasks /\ q' = q
            /\ pc[done'.who] \in {"idle", "wait_lock"} /\ pc'[done'.who] = "idle"
            /\ hadTimeout' = hadTimeout]_vars
\* all_zone_status(4) has returned after another call had written a request
C12_Witness ==
    /\ Ended /\ done.at.op.name = "all_zone_status" /\ done.at.op.n = 4
    /\ done.out.exc = "" /\ done.out.value = <<>> /\ wire # NoWrite

\* A set command's request has been formatted
Formatted == fn.name = "format" /\ fn.request # <<>>
\* The limits and the code of a numeric set command
Lowest(setter) == IF setter = "set_source" THEN 1 ELSE 0
Highest(setter) ==
    CASE setter = "set_volume" -> 38
      [] setter = "set_treble" -> 14
      [] setter = "set_bass" -> 14
      [] setter = "set_balance" -> 20
      [] setter = "set_source" -> 6
Code(setter) ==
    CASE setter = "set_power" -> <<"P", "R">>
      [] setter = "set_mute" -> <<"M", "U">>
      [] setter = "set_volume" -> <<"V", "O">>
      [] setter = "set_treble" -> <<"T", "R">>
      [] setter = "set_bass" -> <<"B", "S">>
      [] setter = "set_balance" -> <<"B", "L">>
      [] setter = "set_source" -> <<"C", "H">>
Clamped(lo, v, hi) == IF v < lo THEN lo ELSE IF v > hi THEN hi ELSE v
Command(zone, code, digits) == <<"<">> \o TwoDigits(zone) \o code \o digits \o <<"\r">>

Falsy == {PyBool(FALSE), PyInt(0), PyNone, PyStr(<<>>)}
\* C15: set_power and set_mute write "00" for False, 0, None and the empty
\* string and "01" for every other value (True, non-zero integers, non-empty
\* strings whatever they spell), in `<{zone}PR..\r` and `<{zone}MU..\r`.
C15_Truthiness ==
    Formatted /\ fn.setter \in {"set_power", "set_mute"} =>
        fn.request = Command(fn.zone, Code(fn.setter),
                             IF fn.value \in Falsy THEN <<"0", "0">> ELSE <<"0", "1">>)
\* A non-empty string switches the power on
C15_Witness ==
    /\ Formatted /\ fn.setter = "set_power" /\ fn.zone = 13
    /\ fn.value = PyStr(<<"T", "r", "u", "e">>)
    /\ fn.request = <<"<", "1", "3", "P", "R", "0", "1", "\r">>

\* A decoding has been done
DecodedOne == fn.name \in {"from_string", "zone_status"} /\ fn.decoded
Fields == {"zone", "pa", "power", "mute", "do_not_disturb", "volume", "treble", "bass",
           "balance", "source", "keypad"}

\* C16: from_string, and zone_status on a reply, give None for the empty
\* string, for a status line with a group or a digit missing and for one with
\* a character that is no digit in a group; whatever the string, the result is
\* None or a status with all eleven fields.
C16_BrokenIsNone ==
    DecodedOne =>
        /\ fn.kind = "broken" => fn.result = None
        /\ fn.result = None \/ (Len(fn.result) = 1 /\ DOMAIN fn.result[1] = Fields)
\* The tests' status line with its last digit missing, between two markers,
\* has been answered with None by zone_status
C16_Witness ==
    /\ DecodedOne /\ fn.name = "zone_status" /\ fn.kind = "broken"
    /\ fn.string = EOL \o EOL \o SubSeq(LineOf(Groups11), 1, 22) \o EOL \o EOL
    /\ fn.result = None

\* C17: from_strings gives the statuses of the lines that parse, in the order
\* of the lines, and nothing for the others; all_zone_status gives the same
\* for the lines of its reply.
C17_OrderKept ==
    fn.name \in {"from_strings", "all_zone_status"} /\ fn.decoded =>
        /\ fn.result = fn.expect
        /\ Len(fn.result) <= MaxLines
\* A reply with zone 12's line, a spoiled line and zone 11's line has given
\* zones 12 and 11
C17_Witness ==
    /\ fn.name = "all_zone_status" /\ fn.decoded
    /\ fn.result = <<StatusOf(Groups12), StatusOf(Groups11)>>
    /\ fn.string = <<"?", "1", "0">> \o EOL \o LineOf(Groups12) \o <<"\r">> \o EOL
                      \o SubSeq(LineOf(Groups11), 1, 21) \o <<"\r">> \o EOL
                      \o <<"i">> \o LineOf(Groups11) \o <<"i">> \o EOL

\* C18: the status decoded is that of the first ">" followed by eleven
\* two-digit groups, whatever surrounds it; the groups are zone, pa, power,
\* mute, do_not_disturb, volume, treble, bass, balance, source, keypad, a flag
\* being true exactly when its group is not zero.
C18_FirstPayload ==
    DecodedOne /\ fn.kind = "noisy" => fn.result = fn.expect
\* test_zone_status: the reply "?11\r\n#>1100010000131112100401\r\n#"
C18_Witness ==
    /\ DecodedOne /\ fn.name = "zone_status"
    /\ fn.string = Echo \o Payload \o EOL
    /\ fn.result = <<[zone |-> 11, pa |-> FALSE, power |-> TRUE, mute |-> FALSE,
                      do_not_disturb |-> FALSE, volume |-> 13, treble |-> 11, bass |-> 12,
                      balance |-> 10, source |-> 4, keypad |-> TRUE]>>

\* C19: decoding the status line of a status whose fields are within their
\* ranges gives that status back, field by field.
C19_RoundTrip ==
    DecodedOne /\ fn.kind = "clean" =>
        /\ Len(fn.result) = 1
        /\ \A f \in Fields : fn.result[1][f] = fn.expect[1][f]
C19_Witness ==
    /\ DecodedOne /\ fn.kind = "clean"
    /\ fn.string = <<">", "3", "6", "0", "1", "0", "0", "0", "1", "0", "0", "3", "8",
                     "0", "7", "1", "4", "2", "0", "0", "6", "0", "1">>
    /\ fn.result = <<[zone |-> 36, pa |-> TRUE, power |-> FALSE, mute |-> TRUE,
                      do_not_disturb |-> FALSE, volume |-> 38, treble |-> 7, bass |-> 14,
                      balance |-> 20, source |-> 6, keypad |-> TRUE]>>

\* The places at which sub occurs in sequence (0-based), overlapping or not
Places(sequence, sub) ==
    {i \in 0..(Len(sequence) - Len(sub)) : SubSeq(sequence, i + 1, i + Len(sub)) = sub}
\* The most occurrences of sub in sequence of which no two overlap
MaxDisjoint(sequence, sub) ==
    LET disjoint == {S \in SUBSET Places(sequence, sub) :
                        \A i, j \in S : i # j => (i - j >= Len(sub) \/ j - i >= Len(sub))}
    IN  CHOOSE n \in 0..Len(sequence) :
            /\ \E S \in disjoint : Cardinality(S) = n
            /\ \A S \in disjoint : Cardinality(S) <= n
Counting == fn.name = "_subsequence_count"

\* C13: however a buffer is split into successive appends, the state
\* threaded through the calls after each append is the state one scan of the
\* buffer so far with no prior state returns; no marker is counted twice or
\* missed, also when it straddles two appends.
C13_Resumable ==
    Counting /\ fn.previous # None =>
        /\ fn.previous = _subsequence_count(fn.sequence, fn.sub, None)
        /\ fn.previous[2] = MaxDisjoint(fn.sequence, fn.sub)
        /\ fn.previous[1] <= Len(fn.sequence)
\* test_subsequent_count: one more "\r" after "\r\r\r"; the second marker
\* straddles the two appends and is counted, the first is not counted again
C13_Witness ==
    /\ Counting /\ fn.sub = TestMarker
    /\ fn.sequence = <<"\r", "\r", "\r", "\r">>
    /\ fn.before = 3
    /\ fn.previous = <<4, 2>>

\* C20 as claimed: every occurrence of a marker that can overlap itself is
\* counted, overlapping ones too.
C20_OverlapsCounted ==
    Counting /\ fn.previous # None =>
        fn.previous[2] = Cardinality(Places(fn.sequence, fn.sub))
\* C20 amended: occurrences are counted from the left without overlap: the
\* scan resumes right after the end of the marker found, so an occurrence that
\* overlaps a counted one is not counted ("\r\r\r" holds one "\r\r", at
\* offset 2; "\r\r\r\r" holds two).
C20_CountedWithoutOverlap ==
    Counting /\ fn.previous # None =>
        /\ fn.previous[2] = MaxDisjoint(fn.sequence, fn.sub)
        /\ fn.previous[2] <= Cardinality(Places(fn.sequence, fn.sub))
        /\ fn.previous[2] * Len(fn.sub) <= fn.previous[1]
\* test_subsequent_count: "\r\r\r" in a single append against "\r\r"
C20_Witness ==
    /\ Counting /\ fn.sub = TestMarker
    /\ fn.sequence = <<"\r", "\r", "\r">> /\ fn.before = 0
    /\ fn.previous = <<2, 1>>

\* The prior state a call starts from: (0, 0) when it is given none
Prior == IF fn.previous = None THEN <<0, 0>> ELSE fn.previous
Resumed == fn.name = "resume" /\ fn.called
\* C26: the cursor only moves forward: a call on an empty buffer with no
\* prior state returns (0, 0); the offset and the count returned are each at
\* least the prior ones; and when no marker starts at or after the prior
\* offset the prior state is returned as it was, also when that offset lies
\* beyond the end of the buffer.
C26_CursorForward ==
    Resumed =>
        /\ (fn.sequence = <<>> /\ fn.previous = None => fn.returned = <<0, 0>>)
        /\ fn.returned[1] >= Prior[1]
        /\ fn.returned[2] >= Prior[2]
        /\ ((\A i \in Places(fn.sequence, fn.sub) : i < Prior[1]) => fn.returned = Prior)
        /\ (fn.returned # Prior =>
                fn.returned[1] > Prior[1] /\ fn.returned[2] > Prior[2])
\* test_subsequent_count: "\r\r\r" against "\r\r" with the prior state
\* (10, 0), whose offset lies beyond the end of the buffer
C26_Witness ==
    /\ Resumed /\ fn.sub = TestMarker
    /\ fn.sequence = <<"\r", "\r", "\r">>
    /\ fn.previous = <<10, 0>> /\ fn.returned = <<10, 0>>

\* C24: in blocking mode a response that is returned holds exactly as many
\* markers as its threshold and ends with the marker, one byte less holds
\* fewer, and the bytes the device sent during the cycle are the response
\* followed by what is still unread in the port: no byte after the one that
\* completes the threshold marker was consumed.
C24_StopsAtThreshold ==
    mode = "blocking" /\ Returned /\ EndedCycle =>
        LET raw == done.out.raw
            n == done.at.n
        IN  /\ Occurrences(raw) = n
            /\ Len(raw) >= LEN_EOL
            /\ SubSeq(raw, Len(raw) - LEN_EOL + 1, Len(raw)) = EOL
            /\ Occurrences(SubSeq(raw, 1, Len(raw) - 1)) = n - 1
            /\ raw \o Bytes(inbuf) = done.fresh
\* A single-zone query answered with a whole unit's reply: the call returns
\* with two markers and the rest of the reply stays in the port
C24_Witness ==
    /\ mode = "blocking" /\ Returned /\ done.at.op.name = "zone_status"
    /\ done.fresh = UnitReply
    /\ Occurrences(done.out.raw) = 2
    /\ Bytes(inbuf) # <<>>

\* Caller c is inside restore_zone, a sub-step's cycle in flight
Restoring(c) == op[c].name = "restore_zone" /\ pc[c] = "reading"
\* C23: while a restore_zone call is between its first and its last sub-step,
\* the only requests written are its own next sub-steps, one at a time and in
\* order; no other call writes a request, in either mode.
C23_RestoreIsolated ==
    [][\A c \in Callers :
          Restoring(c) /\ wire' # wire =>
              /\ wire'.who = c
              /\ Restoring(c)'
              /\ step'[c] = step[c] + 1
              /\ wire'.req = RequestOf(op[c], step[c] + 1)
              /\ sent'[c] = Append(sent[c], wire'.req)]_vars
\* restore_zone is past its first sub-step while another caller waits for
\* the gate
C23_Witness ==
    \E c, d \in Callers :
        /\ Restoring(c) /\ step[c] >= 2 /\ wire.who = c
        /\ d # c /\ pc[d] = "wait_lock"

\* A step by which a call that has started goes on, or by which what it waits
\* for comes about: the connection, a chunk on its way, the clock
Progress ==
    \/ \E c \in Callers : SyncAcquire(c) \/ ReadTimeout(c)
    \/ \E c \in Callers : AsyncAcquire(c) \/ SendResume(c) \/ AsyncTimeout(c)
    \/ connection_made \/ data_received \/ PutTask \/ Tick
\* A reader takes the byte or the chunk that is there for it (ReadByte and
\* AsyncGet have a successor whenever their guard holds)
Takes == \E c \in Callers : HasByte(c) \/ HasChunk(c)
\* C22: the gates never deadlock.  Whenever a call has started and not ended,
\* a step of progress is possible without any new call and without the
\* device: the holder of the gate is running (restore_zone holds the
\* blocking gate twice over, its own entry and its setter's), or the gate is
\* free and a waiter can take it.  In suspending mode the protocol gate is
\* only ever held by the holder of the facade gate, a task held up before
\* send's body finds the protocol gate free and goes on once the connection
\* is up, and no task waits for a facade gate it holds.
C22_NoDeadlock ==
    /\ (\E c \in Callers : pc[c] # "idle") => Takes \/ ENABLED Progress
    /\ \A c \in Callers : pc[c] = "wait_lock" =>
          \/ lockOwner \in Callers \ {c} /\ pc[lockOwner] \in {"wait_send", "reading"}
          \/ \E d \in Callers : ENABLED (SyncAcquire(d) \/ AsyncAcquire(d))
    /\ \A c \in Callers : Restoring(c) /\ mode = "blocking" =>
          lockOwner = c /\ lockDepth = 2
    /\ plock # NoCaller => lockOwner = plock
    /\ \A c \in Callers : pc[c] = "wait_send" =>
          plock = NoCaller /\ (connected => ENABLED SendResume(c))
    /\ \A i \in 1..Len(waiters) : waiters[i] # lockOwner /\ pc[waiters[i]] = "wait_lock"
    /\ mode = "suspending" =>
          \A c \in Callers : pc[c] = "wait_lock" => \E i \in 1..Len(waiters) : waiters[i] = c
\* Blocking mode: restore_zone is inside a setter, the lock taken twice, and
\* every other thread waits for it
C22_Witness ==
    /\ mode = "blocking"
    /\ \E c \in Callers :
          /\ Restoring(c) /\ lockOwner = c /\ lockDepth = 2
          /\ \A d \in Callers \ {c} : pc[d] = "wait_lock"

\* The chunks of a sequence of chunks, joined
RECURSIVE Flat(_)
Flat(chunks) == IF chunks = <<>> THEN <<>> ELSE Head(chunks) \o Flat(Tail(chunks))
\* The bytes of a tagged string that came in after the cycle's request
NewBytes(s) == Bytes(SelectSeq(s, LAMBDA x : x.e = "new"))
\* No byte that came in before the request follows one that came in after it
OldFirst(s) == \A i, j \in 1..Len(s) : i < j /\ s[i].e = "new" => s[j].e = "new"
\* What a cycle with accumulation res has taken and what is on its way to it
Pipeline(res) == res \o Flat(q) \o Flat(tasks) \o inbuf
\* C25: in suspending mode, what a cycle in flight has accumulated, followed
\* by the chunks in the queue, the chunks whose put task has not run and the
\* bytes still in the port, is what came in before the request followed by
\* exactly the bytes the device sent since, in the order sent: the chunks
\* taken so far are the first ones delivered, in arrival order, each once.
\* The same holds when the call ends, for what it then has accumulated.
C25_ChunksInOrder ==
    /\ \A c \in Readers :
          /\ NewBytes(Pipeline(result[c])) = sentSince
          /\ OldFirst(Pipeline(result[c]))
    /\ EndedCycle =>
          /\ NewBytes(Pipeline(done.at.res)) = done.fresh
          /\ OldFirst(Pipeline(done.at.res))
\* Three chunks of one cycle, at three places: one taken, one in the queue,
\* one whose put task has not run yet
C25_Witness ==
    \E c \in Readers :
        /\ result[c] # <<>> /\ Len(q) = 1 /\ Len(tasks) = 1 /\ inbuf = <<>>
        /\ Bytes(result[c]) \o Bytes(q[1]) \o Bytes(tasks[1]) = sentSince
        /\ sentSince = EOL \o <<">">> \o EOL

\* C21 as claimed: whatever the device sends, the receive loop ends: the
\* call returns or fails with a timeout error.
C21_AlwaysEnds == <>(fn.name = "read" /\ fn.state # "reading")
\* C21 amended: the loop ends once the device has fallen silent, by a
\* timeout TIMEOUT after its last byte or chunk unless the threshold was
\* reached; every read that returns data starts the timeout again, so a
\* device that keeps sending without completing the marker count keeps the
\* call in flight.
C21_EndsOnceSilent ==
    /\ (fn.name = "read" /\ fn.silent) ~> (fn.state # "reading")
    /\ [](fn.name = "read" =>
            /\ fn.waited <= TIMEOUT
            /\ (fn.state = "timeout" =>
                    fn.waited = TIMEOUT /\ (fn.count # None => fn.count[2] < fn.n))
            /\ (fn.state = "returned" => fn.count[2] >= fn.n))
\* The device sent data that did not complete the count and fell silent: the
\* call has failed with a timeout
C21_Witness ==
    /\ fn.name = "read" /\ fn.state = "timeout" /\ fn.silent
    /\ Len(fn.result) = MaxLen /\ fn.count[2] + 1 = fn.n
====
